---- MODULE Spec2Model ----
(***************************************************************************)
(* A model of the Jellyfish Merkle tree iterator                           *)
(* (src/jellyfish_merkle/iterator/mod.rs): the construction of the         *)
(* iterator (the seek along the hash of the starting key) and next(), run  *)
(* against a node store whose reads may fail.                              *)
(***************************************************************************)
EXTENDS Integers, Sequences, FiniteSets

\* ------------------------------------------------------------------ bounds

\* Number of nibbles of a key hash (64 in the repository's HashValue).
KeyLen == 2

\* Largest number of leaves of a snapshot.
MaxKeys == 4

\* Nibbles the stored key hashes use at each level, and the nibbles the
\* starting key hashes use (a superset: a starting key may be below every
\* stored key or between two of them, and may name a child that a node does
\* not have).
StoredNibbles(level) ==
    IF level = 1 THEN {1, 5, 15} ELSE IF level = 2 THEN {0, 15} ELSE {15}

StartNibbles(level) ==
    IF level = 1 THEN {0, 1, 3, 5, 15} ELSE {0, 15}

\* ------------------------------------------------------- u16 and u32 values

Nibble == 0..15

\* The operators on u16 are defined through functions: a function is applied
\* to the value of its argument.
Pow2Of[n \in 0..16] == IF n = 0 THEN 1 ELSE 2 * Pow2Of[n - 1]

Pow2(n) == Pow2Of[n]

U16 == Pow2(16)

U16Values == 0..(U16 - 1)

TrailingZerosOf[x \in U16Values] ==
    IF x = 0 THEN 16 ELSE IF x % 2 = 1 THEN 0 ELSE 1 + TrailingZerosOf[x \div 2]

\* u16::trailing_zeros
trailing_zeros(x) == TrailingZerosOf[x]

BitLenOf[x \in U16Values] == IF x = 0 THEN 0 ELSE 1 + BitLenOf[x \div 2]

\* Number of bits needed to write x.
BitLen(x) == BitLenOf[x]

\* u16::leading_zeros
leading_zeros(x) == 16 - BitLen(x)

BitAndOf[a \in U16Values, b \in U16Values] ==
    IF a = 0 \/ b = 0 THEN 0
    ELSE (a % 2) * (b % 2) + 2 * BitAndOf[a \div 2, b \div 2]

\* a & b on u16
BitAnd(a, b) == BitAndOf[a, b]

\* x << n on u16, for n < 16: the bits shifted past bit 15 are lost.
Shl16(x, n) == (x * Pow2(n)) % U16

\* ------------------------------------------------------------ hashes, keys

\* The key hashes of the model: sequences of KeyLen nibbles.
Fingerprints ==
    {f \in [1..KeyLen -> Nibble] : \A i \in 1..KeyLen : f[i] \in StartNibbles(i)}

StoredFingerprints ==
    {f \in Fingerprints : \A i \in 1..KeyLen : f[i] \in StoredNibbles(i)}

\* HashValue's order: the lexicographic order of the nibbles.
HashLess(a, b) ==
    \E i \in 1..KeyLen :
        /\ a[i] < b[i]
        /\ \A j \in 1..(i - 1) : a[j] = b[j]

HashLeq(a, b) == a = b \/ HashLess(a, b)

\* The domain keys, and the hash of each: the hash order is not the order of
\* the keys (the key with the greatest number has the least hash).
Keys == 1..Cardinality(Fingerprints)

merkle_hash ==
    [k \in Keys |->
        CHOOSE f \in Fingerprints :
            Cardinality({g \in Fingerprints : HashLess(f, g)}) = k - 1]

StoredKeys == {k \in Keys : merkle_hash[k] \in StoredFingerprints}

\* The value a snapshot stores with a key.
ValueOf(k) == 100 + k

\* ---------------------------------------------------------------- nodes

\* Node::Null, Node::Internal and Node::Leaf. The children of an internal
\* node are a function from the nibbles that have a child to the child's key.
NullNode == [kind |-> "Null"]

InternalNode(children) == [kind |-> "Internal", children |-> children]

LeafNode(k) == [kind |-> "Leaf", key |-> k, value |-> ValueOf(k)]

\* InternalNode::child: Some(child) exactly for the nibbles that have one.
HasChild(node, n) == n \in DOMAIN node.children

\* InternalNode::generate_bitmaps().0: bit n is set iff child n exists.
RECURSIVE SumPow2(_)
SumPow2(S) ==
    IF S = {} THEN 0
    ELSE LET n == CHOOSE x \in S : TRUE IN Pow2(n) + SumPow2(S \ {n})

generate_bitmaps(node) == SumPow2(DOMAIN node.children)

\* ------------------------------------------------------------ snapshots

\* A node is named by the nibbles that lead to it from the root (the model's
\* stand-in for the node's hash); the root is named by the empty sequence.
IsPrefix(p, q) == Len(p) <= Len(q) /\ SubSeq(q, 1, Len(p)) = p

NodeKeys == {SubSeq(f, 1, n) : f \in StoredFingerprints, n \in 0..KeyLen}

state_root_hash == << >>

\* The place of the leaf of key k when it is stored at depth d[k].
LeafPath(d, k) == SubSeq(merkle_hash[k], 1, d[k])

\* The least depth at which the leaf of k can be stored: the length of the
\* shortest prefix of its hash that no other key of K shares.
MinDepth(K, k) ==
    CHOOSE n \in 0..KeyLen :
        /\ \A x \in K \ {k} : SubSeq(merkle_hash[x], 1, n) # SubSeq(merkle_hash[k], 1, n)
        /\ \A m \in 0..(n - 1) :
               \E x \in K \ {k} : SubSeq(merkle_hash[x], 1, m) = SubSeq(merkle_hash[k], 1, m)

\* The depths of the leaves of the model's snapshots: every leaf at its least
\* depth, but for at most one leaf that is stored deeper (below a chain of
\* internal nodes with one child each); or every leaf at depth KeyLen.
LeafDepths(K) ==
    {d \in [K -> 0..KeyLen] :
        /\ \A k \in K : d[k] >= MinDepth(K, k)
        /\ \/ Cardinality({k \in K : d[k] > MinDepth(K, k)}) <= 1
           \/ \A k \in K : d[k] = KeyLen}

\* The snapshot that stores the keys K, each at its depth; the leaves of the
\* keys in `nulls` are missing: the store answers Node::Null for them although
\* their parent still names them.
Snapshot(K, d, nulls) ==
    [p \in NodeKeys |->
        IF \E k \in K : LeafPath(d, k) = p
        THEN LET k == CHOOSE x \in K : LeafPath(d, x) = p
             IN  IF k \in nulls THEN NullNode ELSE LeafNode(k)
        ELSE IF \E k \in K : IsPrefix(p, LeafPath(d, k))
        THEN InternalNode(
                 [n \in {LeafPath(d, k)[Len(p) + 1] :
                             k \in {x \in K : IsPrefix(p, LeafPath(d, x))}}
                     |-> Append(p, n)])
        ELSE NullNode]

\* The snapshots a run starts from: at most MaxKeys keys; at most one leaf is
\* missing, and then every leaf is at its least depth.
Snapshots ==
    UNION {
        UNION {
            {Snapshot(K, d, nulls) :
                nulls \in {N \in SUBSET K :
                              /\ Cardinality(N) <= 1
                              /\ N # {} => \A k \in K : d[k] = MinDepth(K, k)}}
            : d \in LeafDepths(K)}
        : K \in {L \in SUBSET StoredKeys : Cardinality(L) <= MaxKeys}}

\* ------------------------------------------------------------ the state

VARIABLES
    store,          \* the node store's content: node key -> node
    starting_key,   \* the key the iterator is constructed with
    parent_stack,   \* JellyfishMerkleIterator::parent_stack
    done,           \* JellyfishMerkleIterator::done
    pc,             \* "new": not constructed; "iter": constructed;
                    \* "failed": new() returned Err; "panicked": a panic
    yielded,        \* the pairs the calls of next() returned, in order
    last,           \* what the last call of next() returned
    exhausted,      \* whether a call of next() has returned None
    read_failed,    \* whether a store read of a call of next() has failed
    reference,      \* the pairs the calls of next() return, from the state
                    \* new() returned, when no read fails
    into_parent_stack,  \* JellyfishMerkleIntoIterator::parent_stack
    into_done,          \* JellyfishMerkleIntoIterator::done
    into_pc,            \* as pc, of the JellyfishMerkleIntoIterator
    into_last,          \* what its last call of next() returned
    cleanup_input       \* the stack cleanup_stack was called with, when it is
                        \* called on a stack of its own

\* The state of the JellyfishMerkleIntoIterator.
into_vars == <<into_parent_stack, into_done, into_pc, into_last>>

vars ==
    <<store, starting_key, parent_stack, done, pc, yielded, last, exhausted,
      read_failed, reference, into_vars, cleanup_input>>

\* What next() returns, and a panic.
None == [tag |-> "None"]

SomeOk(leaf) == [tag |-> "Ok", key |-> leaf.key, value |-> leaf.value]

SomeErr(msg) == [tag |-> "Err", msg |-> msg]

Panic(msg) == [tag |-> "Panic", msg |-> msg]

\* The value of `last` before the first call of next().
NotCalled == [tag |-> "NotCalled"]

\* The error of a store read that failed.
StoreErr == SomeErr("storage")

\* ----------------------------------------------------------- NodeVisitInfo

NodeVisitInfo_new(node_key, node) ==
    LET children_bitmap == generate_bitmaps(node)
    IN  [node_key |-> node_key,
         node |-> node,
         children_bitmap |-> children_bitmap,
         next_child_to_visit |-> Shl16(1, trailing_zeros(children_bitmap) % 16)]

\* The loop `while next_child_to_visit & children_bitmap == 0 { <<= 1 }`.
\* Once the bit is shifted out the loop never ends: the value 0 stands for that.
ShiftToChildOf[next_child_to_visit \in U16Values, children_bitmap \in U16Values] ==
    IF next_child_to_visit = 0 THEN 0
    ELSE IF BitAnd(next_child_to_visit, children_bitmap) = 0
         THEN ShiftToChildOf[Shl16(next_child_to_visit, 1), children_bitmap]
         ELSE next_child_to_visit

ShiftToChild(next_child_to_visit, children_bitmap) ==
    ShiftToChildOf[next_child_to_visit, children_bitmap]

\* new_next_child_to_visit that starts on the first child, as new does.
new_next_child_to_visit_FirstChild(node_key, node, child_index) ==
    LET children_bitmap == generate_bitmaps(node)
    IN  [node_key |-> node_key,
         node |-> node,
         children_bitmap |-> children_bitmap,
         next_child_to_visit |-> Shl16(1, trailing_zeros(children_bitmap) % 16)]

\* new_next_child_to_visit that leaves the cursor on child_index.
new_next_child_to_visit_NoScan(node_key, node, child_index) ==
    LET children_bitmap == generate_bitmaps(node)
    IN  [node_key |-> node_key,
         node |-> node,
         children_bitmap |-> children_bitmap,
         next_child_to_visit |-> Shl16(1, child_index)]

new_next_child_to_visit(node_key, node, child_index) ==
    LET children_bitmap == generate_bitmaps(node)
    IN  [node_key |-> node_key,
         node |-> node,
         children_bitmap |-> children_bitmap,
         next_child_to_visit |->
             ShiftToChild(Shl16(1, child_index), children_bitmap)]

\* The assertion of is_rightmost.
is_rightmost_asserted(info) ==
    leading_zeros(info.next_child_to_visit) >= leading_zeros(info.children_bitmap)

\* is_rightmost that compares the lowest bits: true of the leftmost child.
is_rightmost_Leftmost(info) ==
    trailing_zeros(info.next_child_to_visit) = trailing_zeros(info.children_bitmap)

is_rightmost(info) ==
    leading_zeros(info.next_child_to_visit) = leading_zeros(info.children_bitmap)

\* advance that goes back to the first child.
advance_ToFirstChild(info) ==
    [info EXCEPT !.next_child_to_visit =
        Shl16(1, trailing_zeros(info.children_bitmap) % 16)]

\* advance that moves the cursor one bit up without looking for a child.
advance_OneStep(info) ==
    [info EXCEPT !.next_child_to_visit = Shl16(info.next_child_to_visit, 1)]

advance(info) ==
    [info EXCEPT !.next_child_to_visit =
        ShiftToChild(Shl16(info.next_child_to_visit, 1), info.children_bitmap)]

\* ------------------------------------------------------------ cleanup_stack

Pop(stack) == SubSeq(stack, 1, Len(stack) - 1)

Top(stack) == stack[Len(stack)]

\* cleanup_stack that leaves the stack as it is.
cleanup_stack_Nothing(stack) == stack

\* cleanup_stack that pops one rightmost frame and stops.
cleanup_stack_PopOnce(stack) ==
    IF stack = << >> THEN stack
    ELSE IF is_rightmost(Top(stack)) THEN Pop(stack)
    ELSE [stack EXCEPT ![Len(stack)] = advance(Top(stack))]

RECURSIVE cleanup_stack(_)
cleanup_stack(stack) ==
    IF stack = << >> THEN stack
    ELSE IF is_rightmost(Top(stack)) THEN cleanup_stack(Pop(stack))
    ELSE [stack EXCEPT ![Len(stack)] = advance(Top(stack))]

\* Whether an assertion of is_rightmost fails while cleanup_stack runs.
RECURSIVE cleanup_panics(_)
cleanup_panics(stack) ==
    IF stack = << >> THEN FALSE
    ELSE IF ~is_rightmost_asserted(Top(stack)) THEN TRUE
    ELSE IF is_rightmost(Top(stack)) THEN cleanup_panics(Pop(stack))
    ELSE FALSE

\* ------------------------------------------------- JellyfishMerkleIterator::new

\* What new() returns: Ok(Self { parent_stack, done }), Err, or a panic.
NewOk(stack, d) == [outcome |-> "Ok", stack |-> stack, done |-> d]

NewErr == [outcome |-> "Err", stack |-> << >>, done |-> FALSE]

NewPanic == [outcome |-> "Panic", stack |-> << >>, done |-> FALSE]

\* SeekBottom without the comparison of the leaf with the starting key.
SeekBottom_NoComparison(starting_key_hash, stack, current_node_key, reads, failAt) ==
    IF reads + 1 = failAt THEN NewErr
    ELSE LET node == store[current_node_key] IN
         IF node.kind = "Internal" THEN NewPanic
         ELSE IF node.kind = "Leaf" THEN NewOk(stack, FALSE)
         ELSE NewOk(stack, TRUE)

\* SeekBottom that leaves `done` unset on Node::Null.
SeekBottom_NullNotDone(starting_key_hash, stack, current_node_key, reads, failAt) ==
    IF reads + 1 = failAt THEN NewErr
    ELSE LET node == store[current_node_key] IN
         IF node.kind = "Internal" THEN NewPanic
         ELSE IF node.kind = "Leaf"
         THEN IF HashLess(merkle_hash[node.key], starting_key_hash)
              THEN IF cleanup_panics(stack) THEN NewPanic
                   ELSE LET cleaned == cleanup_stack(stack)
                        IN  NewOk(cleaned, cleaned = << >>)
              ELSE NewOk(stack, FALSE)
         ELSE NewOk(stack, FALSE)

\* The match after the loop: the node that ended the loop is read again.
SeekBottom(starting_key_hash, stack, current_node_key, reads, failAt) ==
    IF reads + 1 = failAt THEN NewErr
    ELSE LET node == store[current_node_key] IN
         IF node.kind = "Internal" THEN NewPanic
         ELSE IF node.kind = "Leaf"
         THEN IF HashLess(merkle_hash[node.key], starting_key_hash)
              THEN IF cleanup_panics(stack) THEN NewPanic
                   ELSE LET cleaned == cleanup_stack(stack)
                        IN  NewOk(cleaned, cleaned = << >>)
              ELSE NewOk(stack, FALSE)
         ELSE NewOk(stack, TRUE)

\* `u32::from(u8::from(child_index)) < 15 - bitmap.leading_zeros()`. The
\* subtraction is on u32: for an empty bitmap (16 leading zeros) it wraps to
\* u32::MAX, above every nibble (a build with overflow checks panics there; no
\* snapshot of the model has an internal node without children).
has_child_on_right_OffByOne(child_index, bitmap) ==
    IF leading_zeros(bitmap) > 15 THEN TRUE
    ELSE child_index < 14 - leading_zeros(bitmap)

has_child_on_right(child_index, bitmap) ==
    IF leading_zeros(bitmap) > 15 THEN TRUE
    ELSE child_index < 15 - leading_zeros(bitmap)

\* The loop `while let Node::Internal(internal_node) = reader.get_node(..)?`.
\* `reads` counts the store reads made so far; the read number failAt fails.
RECURSIVE SeekLoop(_, _, _, _, _)
SeekLoop(starting_key_hash, stack, current_node_key, reads, failAt) ==
    IF reads + 1 = failAt THEN NewErr
    ELSE LET internal_node == store[current_node_key] IN
         IF internal_node.kind # "Internal"
         THEN SeekBottom(starting_key_hash, stack, current_node_key,
                         reads + 1, failAt)
         ELSE IF Len(stack) + 1 > KeyLen THEN NewPanic
         ELSE LET child_index == starting_key_hash[Len(stack) + 1] IN
              IF HasChild(internal_node, child_index)
              THEN SeekLoop(starting_key_hash,
                            Append(stack,
                                   new_next_child_to_visit(current_node_key,
                                                           internal_node,
                                                           child_index)),
                            internal_node.children[child_index],
                            reads + 1, failAt)
              ELSE LET bitmap == generate_bitmaps(internal_node) IN
                   IF has_child_on_right(child_index, bitmap)
                   THEN NewOk(Append(stack,
                                     new_next_child_to_visit(current_node_key,
                                                             internal_node,
                                                             child_index)),
                              FALSE)
                   ELSE IF cleanup_panics(stack) THEN NewPanic
                   ELSE NewOk(cleanup_stack(stack), FALSE)

JellyfishMerkleIterator_new(key, failAt) ==
    SeekLoop(merkle_hash[key], << >>, state_root_hash, 0, failAt)

\* ------------------------------------------------ JellyfishMerkleIterator::next

NextRet(result, stack, d) == [result |-> result, stack |-> stack, done |-> d]

\* The loop of next(): follow the cursor of the top frame down to a leaf.
\* The stack with the new frame pushed (`pushed`) is one value, with which
\* the loop goes round again.
RECURSIVE NextLoop(_, _, _)
NextLoop(stack, reads, failAt) ==
    LET last_visited_node_info == Top(stack)
        child_index == trailing_zeros(last_visited_node_info.next_child_to_visit)
    IN  IF ~HasChild(last_visited_node_info.node, child_index)
        THEN NextRet(Panic("Child should exist."), stack, FALSE)
        ELSE LET node_key == last_visited_node_info.node.children[child_index] IN
             IF reads + 1 = failAt THEN NextRet(StoreErr, stack, FALSE)
             ELSE LET node == store[node_key] IN
                  IF node.kind = "Internal"
                  THEN CHOOSE r \in
                           {NextLoop(pushed, reads + 1, failAt) :
                                pushed \in {Append(stack,
                                                    NodeVisitInfo_new(node_key, node))}} :
                           TRUE
                  ELSE IF node.kind = "Leaf"
                  THEN IF cleanup_panics(stack)
                       THEN NextRet(Panic("is_rightmost"), stack, FALSE)
                       ELSE NextRet(SomeOk(node), cleanup_stack(stack), FALSE)
                  ELSE NextRet(SomeErr("Should not reach a null node."),
                               stack, FALSE)

\* NextAtRoot that returns the single leaf without setting `done`.
NextAtRoot_NoLatch(failAt) ==
    IF failAt = 1 THEN NextRet(StoreErr, << >>, FALSE)
    ELSE LET node == store[state_root_hash] IN
         IF node.kind = "Leaf" THEN NextRet(SomeOk(node), << >>, FALSE)
         ELSE IF node.kind = "Internal" THEN NextRet(None, << >>, FALSE)
         ELSE NextRet(Panic("We would have set done to true in new."),
                      << >>, FALSE)

\* NextAtRoot that sets `done` when it finds the root internal.
NextAtRoot_LatchesThePastEnd(failAt) ==
    IF failAt = 1 THEN NextRet(StoreErr, << >>, FALSE)
    ELSE LET node == store[state_root_hash] IN
         IF node.kind = "Leaf" THEN NextRet(SomeOk(node), << >>, TRUE)
         ELSE IF node.kind = "Internal" THEN NextRet(None, << >>, TRUE)
         ELSE NextRet(Panic("We would have set done to true in new."),
                      << >>, FALSE)

\* The case of an empty stack: the root is read again.
NextAtRoot(failAt) ==
    IF failAt = 1 THEN NextRet(StoreErr, << >>, FALSE)
    ELSE LET node == store[state_root_hash] IN
         IF node.kind = "Leaf" THEN NextRet(SomeOk(node), << >>, TRUE)
         ELSE IF node.kind = "Internal" THEN NextRet(None, << >>, FALSE)
         ELSE NextRet(Panic("We would have set done to true in new."),
                      << >>, FALSE)

\* next() that sets `done` when a store read fails.
next_DoneOnStoreErr(stack, d, failAt) ==
    IF d THEN NextRet(None, stack, d)
    ELSE LET r == IF stack = << >> THEN NextAtRoot(failAt)
                  ELSE NextLoop(stack, 0, failAt)
         IN  IF r.result = StoreErr THEN NextRet(r.result, r.stack, TRUE) ELSE r

\* next() that cleans the stack up when a store read fails.
next_CleanupOnStoreErr(stack, d, failAt) ==
    IF d THEN NextRet(None, stack, d)
    ELSE LET r == IF stack = << >> THEN NextAtRoot(failAt)
                  ELSE NextLoop(stack, 0, failAt)
         IN  IF r.result = StoreErr
             THEN NextRet(r.result, cleanup_stack(r.stack), r.done)
             ELSE r

\* next() that sets `done` when it meets Node::Null below the stack.
next_DoneOnNull(stack, d, failAt) ==
    IF d THEN NextRet(None, stack, d)
    ELSE LET r == IF stack = << >> THEN NextAtRoot(failAt)
                  ELSE NextLoop(stack, 0, failAt)
         IN  IF r.result = SomeErr("Should not reach a null node.")
             THEN NextRet(r.result, r.stack, TRUE)
             ELSE r

\* next() without the check of `done`.
next_NoDoneCheck(stack, d, failAt) ==
    IF stack = << >> THEN NextAtRoot(failAt)
    ELSE NextLoop(stack, 0, failAt)

next(stack, d, failAt) ==
    IF d THEN NextRet(None, stack, d)
    ELSE IF stack = << >> THEN NextAtRoot(failAt)
    ELSE NextLoop(stack, 0, failAt)

\* ------------------------------------------- JellyfishMerkleIntoIterator::new

\* JellyfishMerkleIntoIterator::cleanup_stack.
RECURSIVE Into_cleanup_stack(_)
Into_cleanup_stack(stack) ==
    IF stack = << >> THEN stack
    ELSE IF is_rightmost(Top(stack)) THEN Into_cleanup_stack(Pop(stack))
    ELSE [stack EXCEPT ![Len(stack)] = advance(Top(stack))]

\* Whether an assertion of is_rightmost fails while Into_cleanup_stack runs.
RECURSIVE Into_cleanup_panics(_)
Into_cleanup_panics(stack) ==
    IF stack = << >> THEN FALSE
    ELSE IF ~is_rightmost_asserted(Top(stack)) THEN TRUE
    ELSE IF is_rightmost(Top(stack)) THEN Into_cleanup_panics(Pop(stack))
    ELSE FALSE

\* IntoSeekBottom that also skips a leaf whose hash is the starting hash.
IntoSeekBottom_SkipsEqual(starting_key_raw, stack, current_node_key, reads, failAt) ==
    IF reads + 1 = failAt THEN NewErr
    ELSE LET node == store[current_node_key] IN
         IF node.kind = "Internal" THEN NewPanic
         ELSE IF node.kind = "Leaf"
         THEN IF HashLeq(merkle_hash[node.key], starting_key_raw)
              THEN IF Into_cleanup_panics(stack) THEN NewPanic
                   ELSE LET cleaned == Into_cleanup_stack(stack)
                        IN  NewOk(cleaned, cleaned = << >>)
              ELSE NewOk(stack, FALSE)
         ELSE NewOk(stack, TRUE)

\* The match after the loop; the leaf's key hash is compared with the hash
\* the caller passed.
IntoSeekBottom(starting_key_raw, stack, current_node_key, reads, failAt) ==
    IF reads + 1 = failAt THEN NewErr
    ELSE LET node == store[current_node_key] IN
         IF node.kind = "Internal" THEN NewPanic
         ELSE IF node.kind = "Leaf"
         THEN IF HashLess(merkle_hash[node.key], starting_key_raw)
              THEN IF Into_cleanup_panics(stack) THEN NewPanic
                   ELSE LET cleaned == Into_cleanup_stack(stack)
                        IN  NewOk(cleaned, cleaned = << >>)
              ELSE NewOk(stack, FALSE)
         ELSE NewOk(stack, TRUE)

\* The loop of JellyfishMerkleIntoIterator::new.
RECURSIVE IntoSeekLoop(_, _, _, _, _)
IntoSeekLoop(starting_key_raw, stack, current_node_key, reads, failAt) ==
    IF reads + 1 = failAt THEN NewErr
    ELSE LET internal_node == store[current_node_key] IN
         IF internal_node.kind # "Internal"
         THEN IntoSeekBottom(starting_key_raw, stack, current_node_key,
                             reads + 1, failAt)
         ELSE IF Len(stack) + 1 > KeyLen THEN NewPanic
         ELSE LET child_index == starting_key_raw[Len(stack) + 1] IN
              IF HasChild(internal_node, child_index)
              THEN IntoSeekLoop(starting_key_raw,
                                Append(stack,
                                       new_next_child_to_visit(current_node_key,
                                                               internal_node,
                                                               child_index)),
                                internal_node.children[child_index],
                                reads + 1, failAt)
              ELSE LET bitmap == generate_bitmaps(internal_node) IN
                   IF has_child_on_right(child_index, bitmap)
                   THEN NewOk(Append(stack,
                                     new_next_child_to_visit(current_node_key,
                                                             internal_node,
                                                             child_index)),
                              FALSE)
                   ELSE IF Into_cleanup_panics(stack) THEN NewPanic
                   ELSE NewOk(Into_cleanup_stack(stack), FALSE)

\* new(reader, state_root_hash, starting_key): starting_key is a HashValue.
JellyfishMerkleIntoIterator_new(starting_key_raw, failAt) ==
    IntoSeekLoop(starting_key_raw, << >>, state_root_hash, 0, failAt)

\* ------------------------------------------ JellyfishMerkleIntoIterator::next

\* The loop of JellyfishMerkleIntoIterator::next.
RECURSIVE IntoNextLoop(_, _, _)
IntoNextLoop(stack, reads, failAt) ==
    LET last_visited_node_info == Top(stack)
        child_index == trailing_zeros(last_visited_node_info.next_child_to_visit)
    IN  IF ~HasChild(last_visited_node_info.node, child_index)
        THEN NextRet(Panic("Child should exist."), stack, FALSE)
        ELSE LET node_key == last_visited_node_info.node.children[child_index] IN
             IF reads + 1 = failAt THEN NextRet(StoreErr, stack, FALSE)
             ELSE LET node == store[node_key] IN
                  IF node.kind = "Internal"
                  THEN CHOOSE r \in
                           {IntoNextLoop(pushed, reads + 1, failAt) :
                                pushed \in {Append(stack,
                                                    NodeVisitInfo_new(node_key, node))}} :
                           TRUE
                  ELSE IF node.kind = "Leaf"
                  THEN IF Into_cleanup_panics(stack)
                       THEN NextRet(Panic("is_rightmost"), stack, FALSE)
                       ELSE NextRet(SomeOk(node), Into_cleanup_stack(stack), FALSE)
                  ELSE NextRet(SomeErr("Should not reach a null node."),
                               stack, FALSE)

\* The case of an empty stack.
IntoNextAtRoot(failAt) ==
    IF failAt = 1 THEN NextRet(StoreErr, << >>, FALSE)
    ELSE LET node == store[state_root_hash] IN
         IF node.kind = "Leaf" THEN NextRet(SomeOk(node), << >>, TRUE)
         ELSE IF node.kind = "Internal" THEN NextRet(None, << >>, FALSE)
         ELSE NextRet(Panic("We would have set done to true in new."),
                      << >>, FALSE)

JellyfishMerkleIntoIterator_next(stack, d, failAt) ==
    IF d THEN NextRet(None, stack, d)
    ELSE IF stack = << >> THEN IntoNextAtRoot(failAt)
    ELSE IntoNextLoop(stack, 0, failAt)

\* ------------------------------------------------------------- the actions

\* The pairs next() returns from the state (stack, d) on when no read fails,
\* up to the first call that returns no pair.
RECURSIVE PairsWithoutFailure(_, _, _)
PairsWithoutFailure(stack, d, calls) ==
    IF calls = 0 THEN << >>
    ELSE LET r == next(stack, d, 0) IN
         IF r.result.tag = "Ok"
         THEN <<<<r.result.key, r.result.value>>>>
                  \o PairsWithoutFailure(r.stack, r.done, calls - 1)
         ELSE << >>

\* The number of the store read that fails in one call; 0: none fails. new()
\* reads at most the KeyLen + 1 nodes of a path and the last of them again;
\* next() reads at most the KeyLen nodes of a path below the root.
NewFailAts == 0..(KeyLen + 2)

PullFailAts == 0..KeyLen

Init ==
    /\ store \in Snapshots
    /\ starting_key \in Keys
    /\ parent_stack = << >>
    /\ done = FALSE
    /\ pc = "new"
    /\ yielded = << >>
    /\ last = NotCalled
    /\ exhausted = FALSE
    /\ read_failed = FALSE
    /\ reference = << >>
    /\ into_parent_stack = << >>
    /\ into_done = FALSE
    /\ into_pc = "new"
    /\ into_last = NotCalled
    /\ cleanup_input = << >>

\* JellyfishMerkleIterator::new(reader, state_root_hash, starting_key).
NewStep(failAt) ==
    /\ pc = "new"
    /\ \E r \in {JellyfishMerkleIterator_new(starting_key, failAt)} :
       /\ failAt > 0 => r.outcome = "Err"
       /\ parent_stack' = r.stack
       /\ done' = r.done
       /\ pc' = IF r.outcome = "Ok" THEN "iter"
                ELSE IF r.outcome = "Err" THEN "failed" ELSE "panicked"
       /\ reference' = IF r.outcome = "Ok"
                       THEN PairsWithoutFailure(r.stack, r.done, MaxKeys + 1)
                       ELSE << >>
    /\ UNCHANGED <<store, starting_key, yielded, last, exhausted, read_failed,
                   cleanup_input>>

\* One call of JellyfishMerkleIterator::next().
PullStep(failAt) ==
    /\ pc = "iter"
    /\ \E r \in {next(parent_stack, done, failAt)} :
       /\ failAt > 0 => r.result = StoreErr
       /\ parent_stack' = r.stack
       /\ done' = r.done
       /\ pc' = IF r.result.tag = "Panic" THEN "panicked" ELSE "iter"
       /\ last' = r.result
       /\ yielded' = IF r.result.tag = "Ok"
                     THEN Append(yielded, <<r.result.key, r.result.value>>)
                     ELSE yielded
       /\ exhausted' = (exhausted \/ r.result = None)
       /\ read_failed' = (read_failed \/ r.result = StoreErr)
    /\ UNCHANGED <<store, starting_key, reference, cleanup_input>>

\* The construction and the calls of a JellyfishMerkleIterator alone.
New(failAt) == NewStep(failAt) /\ UNCHANGED into_vars

Pull(failAt) == PullStep(failAt) /\ UNCHANGED into_vars

\* JellyfishMerkleIntoIterator::new(reader, state_root_hash, starting_key),
\* with the hash of the starting key for starting_key.
IntoNewStep(failAt) ==
    /\ into_pc = "new"
    /\ \E r \in {JellyfishMerkleIntoIterator_new(merkle_hash[starting_key], failAt)} :
       /\ into_parent_stack' = r.stack
       /\ into_done' = r.done
       /\ into_pc' = IF r.outcome = "Ok" THEN "iter"
                     ELSE IF r.outcome = "Err" THEN "failed" ELSE "panicked"
    /\ UNCHANGED into_last

\* One call of JellyfishMerkleIntoIterator::next().
IntoPullStep(failAt) ==
    /\ into_pc = "iter"
    /\ \E r \in {JellyfishMerkleIntoIterator_next(into_parent_stack, into_done, failAt)} :
       /\ into_parent_stack' = r.stack
       /\ into_done' = r.done
       /\ into_pc' = IF r.result.tag = "Panic" THEN "panicked" ELSE "iter"
       /\ into_last' = r.result

\* The two iterators side by side: both are constructed over the same
\* snapshot from the same starting hash, both are called, and the store
\* gives both the same answers (the same read fails, or none).
BothNew(failAt) == NewStep(failAt) /\ IntoNewStep(failAt)

BothPull(failAt) == PullStep(failAt) /\ IntoPullStep(failAt)

NextBoth ==
    \/ \E failAt \in NewFailAts : BothNew(failAt)
    \/ \E failAt \in PullFailAts : BothPull(failAt)

SpecBoth == Init /\ [][NextBoth]_vars

\* cleanup_stack on a stack of its own. The frames of a snapshot: an internal
\* node, its bitmap, and a cursor on one of its children.
Frames ==
    {[node_key |-> p,
      node |-> store[p],
      children_bitmap |-> generate_bitmaps(store[p]),
      next_child_to_visit |-> Pow2(n)] :
        <<p, n>> \in {<<q, c>> \in NodeKeys \X Nibble :
                         store[q].kind = "Internal" /\ HasChild(store[q], c)}}

\* The stacks cleanup_stack is called with: at most KeyLen frames, the frame
\* at place i of a node i - 1 nibbles below the root, with any cursor.
Stacks ==
    UNION {{stack \in [1..l -> Frames] :
                \A i \in 1..l : Len(stack[i].node_key) = i - 1} : l \in 0..KeyLen}

InitCleanup ==
    /\ store \in Snapshots
    /\ starting_key = 1
    /\ parent_stack \in Stacks
    /\ cleanup_input = parent_stack
    /\ done = FALSE
    /\ pc = "cleanup"
    /\ yielded = << >>
    /\ last = NotCalled
    /\ exhausted = FALSE
    /\ read_failed = FALSE
    /\ reference = << >>
    /\ into_parent_stack = << >>
    /\ into_done = FALSE
    /\ into_pc = "new"
    /\ into_last = NotCalled

\* Self::cleanup_stack(&mut parent_stack).
Cleanup ==
    /\ pc = "cleanup"
    /\ parent_stack' = cleanup_stack(parent_stack)
    /\ pc' = IF cleanup_panics(parent_stack) THEN "panicked" ELSE "cleaned"
    /\ UNCHANGED <<store, starting_key, done, yielded, last, exhausted,
                   read_failed, reference, into_vars, cleanup_input>>

SpecCleanup == InitCleanup /\ [][Cleanup]_vars

Next ==
    \/ \E failAt \in NewFailAts : New(failAt)
    \/ \E failAt \in PullFailAts : Pull(failAt)

\* Any read of the store may fail.
Spec == Init /\ [][Next]_vars

\* The store answers every read.
NextNoFail ==
    \/ New(0)
    \/ Pull(0)

SpecNoFail == Init /\ [][NextNoFail]_vars

\* ----------------------------------------------------- what a snapshot stores

\* The keys of the nodes of the subtree of node p.
RECURSIVE Subtree(_)
Subtree(p) ==
    IF store[p].kind = "Internal"
    THEN {p} \cup UNION {Subtree(store[p].children[n]) : n \in DOMAIN store[p].children}
    ELSE {p}

\* The key-value pairs the snapshot stores: those of the leaves under the root.
StoredPairs ==
    {<<store[p].key, store[p].value>> :
        p \in {q \in Subtree(state_root_hash) : store[q].kind = "Leaf"}}

\* Every internal node has a child, no child is Node::Null, and every leaf is
\* on the path of the hash of its key.
WellFormed ==
    \A p \in Subtree(state_root_hash) :
        /\ store[p].kind = "Internal" =>
               /\ DOMAIN store[p].children # {}
               /\ \A n \in DOMAIN store[p].children :
                      store[store[p].children[n]].kind # "Null"
        /\ store[p].kind = "Leaf" => IsPrefix(p, merkle_hash[store[p].key])

starting_key_hash == merkle_hash[starting_key]

\* The hash of the key of a pair.
PairHash(pair) == merkle_hash[pair[1]]

\* The stored pairs at or after the starting key.
PairsFromStart == {pair \in StoredPairs : HashLeq(starting_key_hash, PairHash(pair))}

YieldedSet == {yielded[i] : i \in 1..Len(yielded)}

\* The least hash: every nibble is 0.
MinFingerprint == [i \in 1..KeyLen |-> 0]

\* ------------------------------------------------------------------ claims

\* C1: over a well-formed snapshot and a store that answers every read, the
\* construction and the calls of next() neither fail nor panic, and once a call
\* has returned None the pairs returned are exactly the stored pairs whose key
\* hash is at or after the hash of the starting key, each once; from the least
\* hash these are all the stored pairs.
C1_YieldsExactlyPairsFromStart ==
    WellFormed =>
        /\ pc \in {"new", "iter"}
        /\ last.tag \in {"NotCalled", "Ok", "None"}
        /\ exhausted =>
               /\ YieldedSet = PairsFromStart
               /\ Len(yielded) = Cardinality(PairsFromStart)
               /\ starting_key_hash = MinFingerprint => YieldedSet = StoredPairs

\* A run over a well-formed snapshot that returned three pairs and then None,
\* from a starting key that some stored key is before.
C1_Witness ==
    /\ WellFormed
    /\ exhausted
    /\ Len(yielded) >= 3
    /\ PairsFromStart # StoredPairs

\* C2: the hashes of the keys returned by one iterator are strictly
\* increasing, whatever the snapshot and whichever reads fail.
C2_StrictlyIncreasing ==
    \A i, j \in 1..Len(yielded) :
        i < j => HashLess(PairHash(yielded[i]), PairHash(yielded[j]))

\* Three pairs were returned, and the last call failed.
C2_Witness ==
    /\ Len(yielded) >= 3
    /\ last = StoreErr

\* C3: over a well-formed snapshot and a store that answers every read, the
\* first pair returned is the stored pair with the least hash at or after the
\* starting hash, and when there is such a pair the first call returns a pair.
C3_FirstIsLowerBound ==
    WellFormed =>
        /\ yielded # << >> =>
               /\ yielded[1] \in PairsFromStart
               /\ \A pair \in PairsFromStart :
                      HashLeq(PairHash(yielded[1]), PairHash(pair))
        /\ (last # NotCalled /\ PairsFromStart # {}) => yielded # << >>

\* The first call returned a pair that is neither the first stored pair nor
\* the pair of the starting key.
C3_Witness ==
    /\ WellFormed
    /\ Len(yielded) = 1
    /\ last.tag = "Ok"
    /\ PairsFromStart # StoredPairs
    /\ yielded[1][1] # starting_key

\* C4: once a call of next() has returned None, every later call returns
\* None; stated over well-formed snapshots.
C4_NoneIsFinal ==
    (WellFormed /\ exhausted) => last = None

\* C5, as claimed: a call of next() in which a store read fails leaves the
\* stack and `done` as they were; stated over well-formed snapshots.
C5_StackUnchangedOnFailure ==
    [][\A failAt \in PullFailAts \ {0} :
           (WellFormed /\ Pull(failAt)) =>
               /\ parent_stack' = parent_stack
               /\ done' = done]_vars

\* The child the cursor of a frame is on.
CursorChild(info) ==
    info.node.children[trailing_zeros(info.next_child_to_visit)]

\* The least set bit of a bitmap.
FirstChildBit(bitmap) == Shl16(1, trailing_zeros(bitmap) % 16)

\* C5, amended: a call of next() whose store read number failAt fails returns
\* the failure and leaves `done` and the pairs returned as they were; the
\* frames of the stack before the call are unchanged, and above them there is
\* one new frame for each of the failAt - 1 internal nodes the call read before
\* the failure, each the child under the cursor of the frame below it, with its
\* own cursor on its first child.
C5_FailureKeepsFramesAndPushes ==
    [][\A failAt \in PullFailAts \ {0} :
           Pull(failAt) =>
               /\ last' = StoreErr
               /\ done' = done
               /\ yielded' = yielded
               /\ Len(parent_stack') = Len(parent_stack) + failAt - 1
               /\ SubSeq(parent_stack', 1, Len(parent_stack)) = parent_stack
               /\ \A i \in (Len(parent_stack) + 1)..Len(parent_stack') :
                      /\ parent_stack'[i].node_key = CursorChild(parent_stack'[i - 1])
                      /\ parent_stack'[i].node = store[parent_stack'[i].node_key]
                      /\ parent_stack'[i].next_child_to_visit =
                             FirstChildBit(parent_stack'[i].children_bitmap)]_vars

\* From the least starting hash the constructor leaves one frame (no stored
\* hash starts with nibble 0); a failed call has pushed a second frame before
\* any pair was returned.
C5_Witness ==
    /\ WellFormed
    /\ starting_key_hash = MinFingerprint
    /\ yielded = << >>
    /\ last = StoreErr
    /\ Len(parent_stack) >= 2

\* C6: whichever reads fail, the pairs returned so far are the first pairs of
\* the run in which no read fails (`reference`), in the same order, and are all
\* of them once a call has returned None.
C6_FailuresDoNotChangeThePairs ==
    pc = "iter" =>
        /\ IsPrefix(yielded, reference)
        /\ exhausted => yielded = reference

\* A read failed, and the run went on to return three pairs and then None.
C6_Witness ==
    /\ WellFormed
    /\ read_failed
    /\ exhausted
    /\ Len(yielded) >= 3
    /\ yielded = reference

\* The node the loop of next() ends on when no read fails: the first node that
\* is not internal, going down from the child under the cursor of the top frame
\* by first children.
RECURSIVE FirstNotInternal(_)
FirstNotInternal(node_key) ==
    IF store[node_key].kind = "Internal"
    THEN FirstNotInternal(
             store[node_key].children[trailing_zeros(generate_bitmaps(store[node_key]))])
    ELSE node_key

\* The next call of next() follows the cursor to a node the store answers
\* Node::Null for.
NullChildAhead ==
    /\ pc = "iter"
    /\ ~done
    /\ parent_stack # << >>
    /\ store[FirstNotInternal(CursorChild(Top(parent_stack)))].kind = "Null"

NullNodeErr == SomeErr("Should not reach a null node.")

\* C7, as claimed: a call of next() that reads Node::Null for a child ends in
\* a panic and returns no error value.
C7_NullChildIsFatal ==
    [][(NullChildAhead /\ Pull(0)) => pc' = "panicked"]_vars

\* C7, amended: a call of next() that reads Node::Null for a child returns an
\* error value; the iterator stays usable, `done` and the pairs returned are
\* unchanged, and the next call is to read the same Node::Null again.
C7_NullChildIsAnError ==
    [][(NullChildAhead /\ Pull(0)) =>
           /\ pc' = "iter"
           /\ last' = NullNodeErr
           /\ done' = done
           /\ yielded' = yielded
           /\ NullChildAhead'
           /\ FirstNotInternal(CursorChild(Top(parent_stack')))
                  = FirstNotInternal(CursorChild(Top(parent_stack)))]_vars

\* A call returned the error for Node::Null after some pairs were returned,
\* and the next call is to read the same node.
C7_Witness ==
    /\ NullChildAhead
    /\ last = NullNodeErr
    /\ yielded # << >>

RootNode == store[state_root_hash]

\* C8: when the root is a leaf and the store answers every read, the stack is
\* always empty; if the starting hash is at or before the hash of the leaf's
\* key the first call of next() returns the leaf's pair and every later call
\* None; otherwise every call returns None.
C8_SingleLeaf ==
    RootNode.kind = "Leaf" =>
        LET pair == <<RootNode.key, RootNode.value>> IN
        /\ pc \in {"new", "iter"}
        /\ parent_stack = << >>
        /\ IF HashLeq(starting_key_hash, PairHash(pair))
           THEN \/ last = NotCalled /\ yielded = << >> /\ ~exhausted
                \/ last = SomeOk(RootNode) /\ yielded = <<pair>> /\ ~exhausted
                \/ last = None /\ yielded = <<pair>> /\ exhausted
           ELSE /\ yielded = << >>
                /\ last \in {NotCalled, None}

\* The single pair was returned from a starting key before it, and then None.
C8_Witness ==
    /\ RootNode.kind = "Leaf"
    /\ HashLess(starting_key_hash, merkle_hash[RootNode.key])
    /\ yielded = <<<<RootNode.key, RootNode.value>>>>
    /\ exhausted

\* Where the nibbles of the starting hash lead from node_key, `depth` nibbles
\* below the root: to a leaf, to Node::Null, or to a child that is missing.
RECURSIVE SeekEnd(_, _)
SeekEnd(node_key, depth) ==
    IF store[node_key].kind # "Internal" THEN store[node_key].kind
    ELSE IF depth < KeyLen /\ HasChild(store[node_key], starting_key_hash[depth + 1])
         THEN SeekEnd(store[node_key].children[starting_key_hash[depth + 1]], depth + 1)
         ELSE "Missing"

\* The root is an internal node of a well-formed snapshot and the starting
\* hash is after the hash of every stored key.
StartPastTheEnd ==
    /\ RootNode.kind = "Internal"
    /\ WellFormed
    /\ \A pair \in StoredPairs : HashLess(PairHash(pair), starting_key_hash)

\* C9: when the starting hash is after every stored hash, the root is an
\* internal node and the store answers every read, the construction succeeds
\* with an empty stack, every call of next() returns None and none returns a
\* pair; `done` is false when the seek ended on a missing child and true when
\* it ended on a leaf.
C9_PastTheEnd ==
    StartPastTheEnd =>
        /\ pc \in {"new", "iter"}
        /\ yielded = << >>
        /\ last \in {NotCalled, None}
        /\ pc = "iter" =>
               /\ parent_stack = << >>
               /\ done = (SeekEnd(state_root_hash, 0) = "Leaf")

\* The seek ended on a missing child below the root's own level, and a call
\* of next() returned None.
C9_Witness ==
    /\ StartPastTheEnd
    /\ SeekEnd(state_root_hash, 0) = "Missing"
    /\ HasChild(RootNode, starting_key_hash[1])
    /\ ~done
    /\ exhausted

\* C10: when the root is Node::Null and the store answers every read, the
\* construction succeeds with `done` set and an empty stack, and every call of
\* next() returns None.
C10_EmptyTree ==
    RootNode.kind = "Null" =>
        /\ pc \in {"new", "iter"}
        /\ pc = "iter" => (done /\ parent_stack = << >>)
        /\ yielded = << >>
        /\ last \in {NotCalled, None}

\* next() was called on the iterator of an empty tree.
C10_Witness ==
    /\ RootNode.kind = "Null"
    /\ pc = "iter"
    /\ exhausted

\* ------------------------------------------------------------- termination

\* The caller of a constructed iterator keeps calling next(): a call that
\* changes the state is not put off for ever, and the store answers.
SpecNoFailFair ==
    /\ SpecNoFail
    /\ WF_vars(Pull(0))

\* C11: over a well-formed snapshot and a store that answers every read, the
\* caller who keeps calling next() on a constructed iterator comes to a call
\* that returns None, and at no time have more pairs been returned than the
\* snapshot stores.
C11_Terminates ==
    /\ (WellFormed /\ pc = "iter") ~> exhausted
    /\ [](Len(yielded) <= Cardinality(StoredPairs))

\* Every stored pair of a full snapshot was returned, and then None.
C11_Witness ==
    /\ WellFormed
    /\ exhausted
    /\ Len(yielded) = Cardinality(StoredPairs)
    /\ Len(yielded) = MaxKeys

\* ------------------------------------------------------ the two iterators

\* C12: run side by side over the same snapshot and the same store answers,
\* the JellyfishMerkleIterator constructed with a key and the
\* JellyfishMerkleIntoIterator constructed with the hash of that key have the
\* same stack and the same `done` after the construction and after every call
\* of next(), the construction ends the same way in both, and every call
\* returns the same in both.
C12_IntoIteratorAgrees ==
    /\ into_pc = pc
    /\ into_parent_stack = parent_stack
    /\ into_done = done
    /\ into_last = last

\* Both iterators returned two pairs, a read failed in both, and both went on
\* to return None with a frame left on neither stack.
C12_Witness ==
    /\ into_pc = "iter"
    /\ Len(yielded) >= 2
    /\ read_failed
    /\ into_last = None
    /\ into_parent_stack = << >>
    /\ ~into_done

\* --------------------------------------------------------------- the frames

\* The bits of a u16 that are set.
BitsOf(x) == {n \in Nibble : (x \div Pow2(n)) % 2 = 1}

\* C13: in every state, after the construction and after every call of
\* next() whether it returned a pair, a failure or None, every frame of the
\* stack has a cursor with exactly one bit set, that bit is set in the frame's
\* bitmap, the bitmap is not zero, and the bits of the bitmap are the nibbles
\* at which the frame's internal node, as the store has it, has a child.
C13_CursorInvariant ==
    \A i \in 1..Len(parent_stack) :
        LET info == parent_stack[i] IN
        /\ Cardinality(BitsOf(info.next_child_to_visit)) = 1
        /\ BitsOf(info.next_child_to_visit) \subseteq BitsOf(info.children_bitmap)
        /\ info.children_bitmap # 0
        /\ info.node.kind = "Internal"
        /\ info.node = store[info.node_key]
        /\ BitsOf(info.children_bitmap) = DOMAIN info.node.children

\* After a failed call there are two frames; the cursor of the lower one has
\* been advanced past its first child, to a child that is not the next nibble.
C13_Witness ==
    /\ last = StoreErr
    /\ Len(parent_stack) = 2
    /\ yielded # << >>
    /\ LET info == parent_stack[1] IN
       /\ trailing_zeros(info.next_child_to_visit) > trailing_zeros(info.children_bitmap) + 1
       /\ Cardinality(BitsOf(info.children_bitmap)) >= 2

\* ---------------------------------------------------- the frames' preconditions

\* The node at which the nibbles of the starting hash stop leading further,
\* from node_key `depth` nibbles below the root, and its depth.
RECURSIVE SeekStop(_, _)
SeekStop(node_key, depth) ==
    IF /\ store[node_key].kind = "Internal"
       /\ depth < KeyLen
       /\ HasChild(store[node_key], starting_key_hash[depth + 1])
    THEN SeekStop(store[node_key].children[starting_key_hash[depth + 1]], depth + 1)
    ELSE [node_key |-> node_key, depth |-> depth]

\* The seek ends on an internal node without a child at the starting hash's
\* nibble, and new() takes the branch that scans for a child to the right.
SeekScans ==
    /\ SeekEnd(state_root_hash, 0) = "Missing"
    /\ LET stop == SeekStop(state_root_hash, 0) IN
       has_child_on_right(starting_key_hash[stop.depth + 1],
                          generate_bitmaps(store[stop.node_key]))

\* C14: over a well-formed snapshot, whichever reads fail, nothing panics; the
\* scan of new_next_child_to_visit for a child to the right is entered only
\* when the node has a child at or above the nibble; no cursor has run off the
\* sixteen bits (as it does when advance is called on a rightmost frame, or
\* when the scan finds no child); every frame meets the assertion of
\* is_rightmost; and the node of every frame has a child at the cursor.
C14_PreconditionsHold ==
    WellFormed =>
        /\ pc # "panicked"
        /\ last.tag # "Panic"
        /\ SeekScans =>
               LET stop == SeekStop(state_root_hash, 0) IN
               \E n \in DOMAIN store[stop.node_key].children :
                   n >= starting_key_hash[stop.depth + 1]
        /\ \A i \in 1..Len(parent_stack) :
               /\ parent_stack[i].next_child_to_visit # 0
               /\ is_rightmost_asserted(parent_stack[i])
               /\ HasChild(parent_stack[i].node,
                           trailing_zeros(parent_stack[i].next_child_to_visit))

\* new() scanned for a child to the right, and the calls of next() went on
\* through at least two pairs to None with a failed read on the way.
C14_Witness ==
    /\ WellFormed
    /\ SeekScans
    /\ read_failed
    /\ Len(yielded) >= 2
    /\ exhausted

\* ------------------------------------------------------------ cleanup_stack

\* The nibble of the child a cursor is on.
NibbleOf(info) == CHOOSE n \in Nibble : Pow2(n) = info.next_child_to_visit

\* The cursor of a frame is on the last child of its node.
Rightmost(info) == \A n \in DOMAIN info.node.children : n <= NibbleOf(info)

\* The place of the topmost frame of a stack that is not rightmost; 0 when
\* every frame is.
TopmostNotRightmost(stack) ==
    IF \A i \in 1..Len(stack) : Rightmost(stack[i]) THEN 0
    ELSE CHOOSE i \in 1..Len(stack) :
             /\ ~Rightmost(stack[i])
             /\ \A j \in (i + 1)..Len(stack) : Rightmost(stack[j])

\* C15: cleanup_stack, called with any stack, pops the frames above the
\* topmost frame that is not rightmost, and no other; the cursor of that frame
\* moves to the least nibble above it at which the node has a child, its node
\* and bitmap stay; the frames below it are unchanged; when every frame is
\* rightmost the stack ends empty.
C15_CleanupPostcondition ==
    /\ pc # "panicked"
    /\ pc = "cleaned" =>
        LET m == TopmostNotRightmost(cleanup_input) IN
        /\ Len(parent_stack) = m
        /\ \A i \in 1..(m - 1) : parent_stack[i] = cleanup_input[i]
        /\ m > 0 =>
               /\ parent_stack[m].node_key = cleanup_input[m].node_key
               /\ parent_stack[m].node = cleanup_input[m].node
               /\ parent_stack[m].children_bitmap = cleanup_input[m].children_bitmap
               /\ \E n \in DOMAIN cleanup_input[m].node.children :
                      /\ parent_stack[m].next_child_to_visit = Pow2(n)
                      /\ n > NibbleOf(cleanup_input[m])
                      /\ \A c \in DOMAIN cleanup_input[m].node.children :
                             c > NibbleOf(cleanup_input[m]) => n <= c

\* cleanup_stack popped a frame and moved the cursor of the root's frame over
\* a nibble without a child.
C15_Witness ==
    /\ pc = "cleaned"
    /\ Len(cleanup_input) = KeyLen
    /\ Len(parent_stack) = 1
    /\ NibbleOf(parent_stack[1]) > NibbleOf(cleanup_input[1]) + 1

\* ------------------------------------------------------ the nearest successor

\* The nibble of the starting hash at the node the seek stops at.
StopNibble == starting_key_hash[SeekStop(state_root_hash, 0).depth + 1]

\* The children of the node the seek stops at that are right of that nibble.
ChildrenOnRight ==
    {c \in DOMAIN store[SeekStop(state_root_hash, 0).node_key].children :
        c > StopNibble}

\* Over a well-formed snapshot the seek stops at an internal node that has no
\* child at the nibble of the starting hash and has a child right of it.
MissWithSuccessor ==
    /\ WellFormed
    /\ SeekEnd(state_root_hash, 0) = "Missing"
    /\ ChildrenOnRight # {}

\* The least child right of the nibble.
SuccessorNibble == CHOOSE c \in ChildrenOnRight : \A e \in ChildrenOnRight : c <= e

\* The stored pairs below that child.
SuccessorPairs ==
    {pair \in StoredPairs :
        IsPrefix(Append(SeekStop(state_root_hash, 0).node_key, SuccessorNibble),
                 PairHash(pair))}

\* The pair of the key whose hash is h.
PairOfHash(h) ==
    LET k == CHOOSE x \in Keys : merkle_hash[x] = h IN <<k, ValueOf(k)>>

\* The snapshot stores a key under nibble 1, two keys under nibble 5 that
\* differ in the second nibble, and a key under nibble 15; the starting hash
\* is after the first and before the others.
FixedScenario ==
    /\ WellFormed
    /\ Cardinality(StoredPairs) = 4
    /\ \E f \in Fingerprints :
           /\ f[1] = 15
           /\ {PairHash(pair) : pair \in StoredPairs}
                  = {<<1, 0>> \o SubSeq(f, 3, KeyLen), <<5, 0>> \o SubSeq(f, 3, KeyLen),
                     <<5, 15>> \o SubSeq(f, 3, KeyLen), f}
    /\ \A pair \in StoredPairs :
           /\ PairHash(pair)[1] = 1 => HashLess(PairHash(pair), starting_key_hash)
           /\ PairHash(pair)[1] = 5 => HashLess(starting_key_hash, PairHash(pair))

\* The pairs of the fixed scenario after the starting hash, by their hashes.
FixedScenarioPairs ==
    LET after == {pair \in StoredPairs : PairHash(pair)[1] # 1}
        first == CHOOSE pair \in after : PairHash(pair)[1] = 5 /\ PairHash(pair)[2] = 0
        second == CHOOSE pair \in after : PairHash(pair)[1] = 5 /\ PairHash(pair)[2] = 15
        third == CHOOSE pair \in after : PairHash(pair)[1] = 15
    IN  <<first, second, third>>

\* C16: when the store answers every read and the seek stops at an internal
\* node without a child at the starting hash's nibble and with a child right
\* of it, new() returns with `done` unset and the frame of that node on top,
\* its cursor on the least child right of the nibble; the calls of next()
\* return the pairs below that child first, in increasing order of hash, then
\* the pairs under greater nibbles, then None. In the fixed scenario the
\* calls return the two pairs under nibble 5 in the order of their second
\* nibble, then the pair under nibble 15, then None.
C16_NearestSuccessor ==
    /\ MissWithSuccessor =>
           /\ pc \in {"new", "iter"}
           /\ last.tag \in {"NotCalled", "Ok", "None"}
           /\ (pc = "iter" /\ last = NotCalled) =>
                  /\ ~done
                  /\ Len(parent_stack) = SeekStop(state_root_hash, 0).depth + 1
                  /\ Top(parent_stack).node_key = SeekStop(state_root_hash, 0).node_key
                  /\ Top(parent_stack).next_child_to_visit = Pow2(SuccessorNibble)
           /\ last # NotCalled =>
                  /\ yielded # << >>
                  /\ yielded[1] \in SuccessorPairs
           /\ \A i, j \in 1..Len(yielded) :
                  i < j =>
                      /\ HashLess(PairHash(yielded[i]), PairHash(yielded[j]))
                      /\ yielded[j] \in SuccessorPairs => yielded[i] \in SuccessorPairs
           /\ exhausted =>
                  /\ SuccessorPairs \subseteq YieldedSet
                  /\ YieldedSet =
                         {pair \in StoredPairs :
                             HashLess(starting_key_hash, PairHash(pair))}
    /\ FixedScenario =>
           /\ pc \in {"new", "iter"}
           /\ IsPrefix(yielded, FixedScenarioPairs)
           /\ last # NotCalled => yielded # << >>
           /\ exhausted => yielded = FixedScenarioPairs

\* The fixed scenario, from a starting hash whose first nibble is between 1
\* and 5: the seek stopped at the root, which has no child at that nibble; the
\* two pairs under nibble 5 were returned, then the pair under nibble 15,
\* then None.
C16_Witness ==
    /\ FixedScenario
    /\ MissWithSuccessor
    /\ SeekStop(state_root_hash, 0).depth = 0
    /\ SuccessorNibble = 5
    /\ Cardinality(SuccessorPairs) = 2
    /\ Len(yielded) = 3
    /\ exhausted

\* ------------------------------------------------------------------- done

\* C17: `done` is never reset; a call of next() made while `done` is set
\* returns None and leaves the stack, `done` and the pairs returned as they
\* were; it reads nothing from the store: whichever read is set to fail, the
\* call returns None all the same, and no call made while `done` is set
\* returns a failure.
C17_DoneIsALatch ==
    /\ [][done => done']_vars
    /\ [](done =>
              \A failAt \in PullFailAts :
                  next(parent_stack, done, failAt) = NextRet(None, parent_stack, TRUE))
    /\ [][\A failAt \in PullFailAts :
              (done /\ Pull(failAt)) =>
                  /\ failAt = 0
                  /\ last' = None
                  /\ parent_stack' = parent_stack
                  /\ yielded' = yielded]_vars

\* `done` was set by the call that returned the single leaf of the snapshot,
\* and a call made after it returned None.
C17_Witness ==
    /\ done
    /\ yielded # << >>
    /\ last = None

\* ----------------------------------------------------------- the empty tree

\* The message of the unreachable! arm of next() for a root that is
\* Node::Null.
RootNullPanic == Panic("We would have set done to true in new.")

\* C18: the store answers every read of a node key with the same node. A
\* constructed iterator whose stack is empty and whose `done` is unset has a
\* root that is not Node::Null: when the root is Node::Null, new() has set
\* `done`; no call of next() ends in the unreachable! arm for such a root.
C18_NullRootIsDone ==
    /\ (pc = "iter" /\ parent_stack = << >> /\ ~done) => RootNode.kind # "Null"
    /\ (pc = "iter" /\ RootNode.kind = "Null") => done
    /\ last # RootNullPanic
    /\ pc = "iter" =>
           \A failAt \in PullFailAts :
               next(parent_stack, done, failAt).result # RootNullPanic

\* A call of next() was made with an empty stack and `done` unset after a
\* call whose read of the root failed: it read the root, an internal node,
\* and returned None.
C18_Witness ==
    /\ pc = "iter"
    /\ parent_stack = << >>
    /\ ~done
    /\ read_failed
    /\ yielded = << >>
    /\ last = None

\* ------------------------------------------------------------ the stack's path

\* The depth of the tree: the greatest number of nibbles from the root to a
\* node.
TreeDepth ==
    CHOOSE n \in 0..KeyLen :
        /\ \E p \in Subtree(state_root_hash) : Len(p) = n
        /\ \A p \in Subtree(state_root_hash) : Len(p) <= n

\* C19: in every state, after the construction and after every call of
\* next(), the frames of the stack are a path of internal nodes from the
\* root: the lowest frame is of the root, every other frame is of the child
\* at the cursor of the frame below it, and there are no more frames than the
\* tree is deep.
C19_StackIsAPath ==
    /\ parent_stack # << >> => parent_stack[1].node_key = state_root_hash
    /\ \A i \in 2..Len(parent_stack) :
           /\ HasChild(parent_stack[i - 1].node,
                       NibbleOf(parent_stack[i - 1]))
           /\ parent_stack[i].node_key =
                  parent_stack[i - 1].node.children[NibbleOf(parent_stack[i - 1])]
    /\ \A i \in 1..Len(parent_stack) :
           /\ store[parent_stack[i].node_key].kind = "Internal"
           /\ parent_stack[i].node = store[parent_stack[i].node_key]
    /\ Len(parent_stack) <= TreeDepth

\* The stack has two frames, the cursor of the lower one on a child that is
\* not the first; a call of next() returned a pair and the last call failed.
C19_Witness ==
    /\ Len(parent_stack) = 2
    /\ NibbleOf(parent_stack[1]) > trailing_zeros(parent_stack[1].children_bitmap)
    /\ Len(yielded) = 1
    /\ last = StoreErr

\* -------------------------------------------------- calls that return None

\* C20: a call of next() that returns None leaves the stack and `done` as
\* they were: with an empty stack, `done` unset and an internal root they stay
\* empty and unset, and with `done` set they stay what they are; the pairs
\* returned stay as well. No call of next(), whatever it returns, and no
\* construction changes what the store holds.
C20_NoneChangesNothing ==
    /\ [][\A failAt \in PullFailAts :
              (Pull(failAt) /\ last' = None) =>
                  /\ parent_stack' = parent_stack
                  /\ done' = done
                  /\ yielded' = yielded
                  /\ \/ done
                     \/ parent_stack = << >> /\ RootNode.kind = "Internal"]_vars
    /\ [](pc = "iter" =>
              LET r == next(parent_stack, done, 0) IN
              r.result = None => (r.stack = parent_stack /\ r.done = done))
    /\ [][store' = store]_vars

\* After the last pair was returned and the stack ran empty, a call found the
\* root internal and returned None, and so did the call after a failed read.
C20_Witness ==
    /\ pc = "iter"
    /\ RootNode.kind = "Internal"
    /\ parent_stack = << >>
    /\ ~done
    /\ yielded # << >>
    /\ read_failed
    /\ last = None

====
